---- MODULE Spec2Model ----
(***************************************************************************)
(* Ticket lifecycle and asynchronous triage pipeline of the support-ticket *)
(* backend: the HTTP handlers of TicketController (create, updateDraft,    *)
(* resolve, close, delete), the TicketService writes they perform, the     *)
(* BullMQ ticket queue and the ticketWorker handler with its audit log.    *)
(* Every `await` of a handler is a separate step, so requests and worker   *)
(* attempts interleave exactly where the event loop lets them.             *)
(***************************************************************************)
EXTENDS Integers, Sequences, FiniteSets, TLC

(* ------------------------------ bounds --------------------------------- *)
MaxTickets == 1
MaxReqs == 2
MaxQueued == 2
MaxMarkers == 3

(* --------------------------- program constants ------------------------- *)
TICKET_WORKER_CONCURRENCY == 4
attempts == 3

TicketIds == 1..MaxTickets
Reqs == 1..MaxReqs
Users == {1, 2}

(* null of a nullable column, by the type of the column *)
NULL == "null"
NullInt == -1
NullText == <<"null">>
NoUser == 0

TicketStatus == {"OPEN", "IN_PROGRESS", "RESOLVED", "CLOSED"}
TRIAGE_CATEGORIES == {"Billing", "Technical", "Feature Request"}
TRIAGE_URGENCIES == {"High", "Medium", "Low"}

(* texts are sequences of characters; a word the code never looks into  *)
(* ("Billing", "undefined") is held as one token                         *)
IsSpace(c) == c \in {" ", "\n"}

RECURSIVE TrimStart(_)
TrimStart(s) ==
  IF s = << >> THEN << >>
  ELSE IF IsSpace(Head(s)) THEN TrimStart(Tail(s)) ELSE s

RECURSIVE TrimEnd(_)
TrimEnd(s) ==
  IF s = << >> THEN << >>
  ELSE IF IsSpace(s[Len(s)]) THEN TrimEnd(SubSeq(s, 1, Len(s) - 1)) ELSE s

(* String.prototype.trim *)
NoTrim(s) == s
Trim(s) == TrimEnd(TrimStart(s))

(* draftReplyMessage values a PATCH /draft body may carry (IsString only) *)
DraftTexts == { << >>, <<" ">>, <<" ", "c">> }

(* ------------------------------ tickets -------------------------------- *)
NoTicket ==
  [id |-> 0, title |-> NullText, content |-> NullText, userId |-> NoUser,
   status |-> NULL, category |-> NULL,
   tag |-> NullText, sentiment |-> NullInt, urgency |-> NULL,
   responseDraft |-> NullText, replyMadeBy |-> NULL, response |-> NullText]

(* TicketService.create: the row inserted for a new ticket *)
NewTicketOwnerless(id, userId) == [NoTicket EXCEPT !.id = id, !.status = "OPEN"]

NewTicket(id, userId) ==
  [id |-> id, title |-> <<"t">>, content |-> <<"c">>, userId |-> userId,
   status |-> "OPEN", category |-> NULL,
   tag |-> NullText, sentiment |-> NullInt, urgency |-> NULL,
   responseDraft |-> NullText, replyMadeBy |-> NULL, response |-> NullText]

(* ------------------------- triage classifier --------------------------- *)
(* A JSON value as JavaScript sees it after JSON.parse: its typeof, its    *)
(* text when it is a string, its value in tenths when it is a number (7.5  *)
(* is 75). Undefined is what reading a missing member gives.               *)
Undefined == [t |-> "undefined", s |-> << >>, n |-> 0]
JsonNull == [t |-> "object", s |-> << >>, n |-> 0]
Str(s) == [t |-> "string", s |-> s, n |-> 0]
Num(tenths) == [t |-> "number", s |-> << >>, n |-> tenths]

DigitChars == <<"0", "1", "2", "3", "4", "5", "6", "7", "8", "9">>
IsDigit(c) == \E i \in 1..Len(DigitChars) : DigitChars[i] = c
DigitVal(c) == (CHOOSE i \in 1..Len(DigitChars) : DigitChars[i] = c) - 1

(* decimal text of a non-negative integer *)
RECURSIVE IntText(_)
IntText(n) ==
  IF n < 10 THEN <<DigitChars[n + 1]>>
  ELSE Append(IntText(n \div 10), DigitChars[(n % 10) + 1])

(* Number.prototype.toString of a number held in tenths *)
RECURSIVE NumText(_)
NumText(tenths) ==
  IF tenths < 0 THEN <<"-">> \o NumText(0 - tenths)
  ELSE IF tenths % 10 = 0 THEN IntText(tenths \div 10)
  ELSE IntText(tenths \div 10) \o <<".", DigitChars[(tenths % 10) + 1]>>

(* String(value) *)
String(value) ==
  CASE value.t = "string" -> value.s
    [] value.t = "number" -> NumText(value.n)
    [] value.t = "undefined" -> <<"undefined">>
    [] OTHER -> <<"null">>

(* parseInt(s, 10): leading whitespace skipped, an optional sign, then the *)
(* longest run of digits; NaN when there is none                           *)
RECURSIVE DigitsPrefix(_)
DigitsPrefix(s) ==
  IF s = << >> \/ ~IsDigit(Head(s)) THEN << >>
  ELSE <<Head(s)>> \o DigitsPrefix(Tail(s))

RECURSIVE DigitsValue(_)
DigitsValue(d) ==
  IF d = << >> THEN 0
  ELSE 10 * DigitsValue(SubSeq(d, 1, Len(d) - 1)) + DigitVal(d[Len(d)])

NaN == [nan |-> TRUE, n |-> 0]
Finite(tenths) == [nan |-> FALSE, n |-> tenths]

parseInt(s) ==
  LET t == TrimStart(s)
      neg == t # << >> /\ Head(t) = "-"
      signed == t # << >> /\ Head(t) \in {"-", "+"}
      d == DigitsPrefix(IF signed THEN Tail(t) ELSE t)
  IN IF d = << >> THEN NaN
     ELSE Finite(IF neg THEN 0 - 10 * DigitsValue(d) ELSE 10 * DigitsValue(d))

(* the members parseTriageResponse reads from the parsed object *)
NoObject ==
  [ticket_id |-> Undefined, category |-> Undefined,
   sentiment_score |-> Undefined, urgency |-> Undefined,
   response_draft |-> Undefined]

(* A model response: its text, in which the token "{}" stands for the     *)
(* serialised JSON object whose members are obj, "FENCE" for the three *)
(* backticks of a code fence and any other token for itself.              *)
NoResponse == [text |-> NullText, obj |-> NoObject]

Response(text, ticket_id, category, sentiment_score, urgency, response_draft) ==
  [text |-> text,
   obj |-> [ticket_id |-> ticket_id, category |-> category,
            sentiment_score |-> sentiment_score, urgency |-> urgency,
            response_draft |-> response_draft]]

NotJson == [text |-> <<"x">>, obj |-> NoObject]
GoodResponse ==
  Response(<<"{}">>, Str(<<"1">>), Str(<<"Billing">>), Num(30),
           Str(<<"High">>), Str(<<"a">>))
DefaultedResponse ==
  Response(<<"FENCE", "json", "\n", "{}", "\n", "FENCE">>, Undefined,
           Str(<<"InvalidCategory">>), Num(110), Undefined,
           Str(<<" ", "b">>))
BlankDraftResponse ==
  Response(<<"{}">>, Str(<<"1">>), Str(<<"Technical">>), Num(50),
           Str(<<"Medium">>), Str(<<" ">>))

(* answers of the model used where the worker runs among other activity *)
ModelResponses ==
  {NotJson, GoodResponse, DefaultedResponse, BlankDraftResponse}

(* errors model.invoke may reject with *)
ModelErrors == {"upstream unavailable"}

normalizeCategory(value) ==
  LET s == Trim(String(value))
  IN IF Len(s) = 1 /\ s[1] \in TRIAGE_CATEGORIES THEN s[1] ELSE "Technical"

normalizeSentimentBelowTen(value) ==
  IF value.t = "number" /\ value.n % 10 = 0 /\ value.n >= 10 /\ value.n < 100
    THEN value.n \div 10 ELSE 5

normalizeSentiment(value) ==
  LET n == IF value.t = "number" THEN Finite(value.n)
                                 ELSE parseInt(String(value))
  IN IF ~n.nan /\ n.n % 10 = 0 /\ n.n >= 10 /\ n.n <= 100
       THEN n.n \div 10 ELSE 5

normalizeUrgencyExact(value) ==
  IF value.t = "string" /\ Len(value.s) = 1 /\ value.s[1] \in TRIAGE_URGENCIES
    THEN value.s[1] ELSE "Medium"

normalizeUrgency(value) ==
  LET s == Trim(String(value))
  IN IF Len(s) = 1 /\ s[1] \in TRIAGE_URGENCIES THEN s[1] ELSE "Medium"

NullResult ==
  [ticket_id |-> NullText, category |-> NULL, sentiment_score |-> NullInt,
   urgency |-> NULL, response_draft |-> NullText]

(* parseTriageResponse: the fence is removed by two replace calls *)
FenceTags == {"json", "JSON", "Json"}

StripOpenFence(s) ==
  IF s # << >> /\ Head(s) = "FENCE"
    THEN LET r == Tail(s)
         IN TrimStart(IF r # << >> /\ Head(r) \in FenceTags THEN Tail(r)
                                                           ELSE r)
    ELSE s

StripCloseFenceNever(s) == s
StripCloseFence(s) ==
  LET e == TrimEnd(s)
  IN IF e # << >> /\ e[Len(e)] = "FENCE"
       THEN TrimEnd(SubSeq(e, 1, Len(e) - 1))
       ELSE s

jsonStr(raw) == Trim(StripCloseFence(StripOpenFence(Trim(raw.text))))

(* JSON.parse(jsonStr) returns the object, else throws *)
ParsesLoosely(raw) == \E i \in 1..Len(raw.text) : raw.text[i] = "{}"
Parses(raw) == jsonStr(raw) = <<"{}">>

(* the object parseTriageResponse builds once JSON.parse succeeded *)
parseTriageResponse(raw, fallbackTicketId) ==
  LET parsed == raw.obj
  IN [ticket_id |-> IF parsed.ticket_id.t = "string"
                      THEN parsed.ticket_id.s ELSE fallbackTicketId,
      category |-> normalizeCategory(parsed.category),
      sentiment_score |-> normalizeSentiment(parsed.sentiment_score),
      urgency |-> normalizeUrgency(parsed.urgency),
      response_draft |-> IF parsed.response_draft.t = "string"
                           THEN parsed.response_draft.s ELSE << >>]

(* triage output consumed by the worker: { valid, result, raw } *)
ValidAlways(result) == TRUE
Valid(result) == Trim(result.response_draft) # << >>

triage(ticket_id, raw) ==
  IF ~Parses(raw)
    THEN [valid |-> FALSE, result |-> NullResult, raw |-> raw]
    ELSE LET r == parseTriageResponse(raw, ticket_id)
         IN [valid |-> Valid(r), result |-> r, raw |-> raw]

NoOutput == [valid |-> FALSE, result |-> NullResult, raw |-> NoResponse]

(* --------------------------- TicketService ----------------------------- *)
(* data written by updateTriage *)
updateTriageWithStatus(t, tr) ==
  [t EXCEPT !.category = tr.category,
                  !.sentiment = tr.sentiment_score,
                  !.urgency = tr.urgency,
                  !.responseDraft = tr.response_draft,
                  !.replyMadeBy = "AI",
                  !.status = "IN_PROGRESS"]

updateTriageFillOnly(t, tr) ==
  IF t.category # NULL THEN t
  ELSE [t EXCEPT !.category = tr.category,
                 !.sentiment = tr.sentiment_score,
                 !.urgency = tr.urgency,
                 !.responseDraft = tr.response_draft,
                 !.replyMadeBy = "AI"]

updateTriage(t, tr) ==
  [t EXCEPT !.category = tr.category,
                  !.sentiment = tr.sentiment_score,
                  !.urgency = tr.urgency,
                  !.responseDraft = tr.response_draft,
                  !.replyMadeBy = "AI"]

(* data written by updateAiReplyMessage *)
updateAiReplyMessageDraftOnly(t, draftReplyMessage) ==
  [t EXCEPT !.responseDraft = draftReplyMessage]

updateAiReplyMessageAsAI(t, draftReplyMessage) ==
  [t EXCEPT !.replyMadeBy = "AI", !.responseDraft = draftReplyMessage]

updateAiReplyMessage(t, draftReplyMessage) ==
  [t EXCEPT !.replyMadeBy = "HUMAN_AI",
                  !.responseDraft = draftReplyMessage]

(* data written by resolveTicket(id, responseDraft) *)
resolveTicketStatusOnly(t, responseDraft) == [t EXCEPT !.status = "RESOLVED"]
resolveTicket(t, responseDraft) ==
  [t EXCEPT !.response = responseDraft, !.status = "RESOLVED"]

(* data written by closeTicket(id) *)
closeTicketDisowning(t) == [t EXCEPT !.status = "CLOSED", !.userId = NoUser]
closeTicket(t) == [t EXCEPT !.status = "CLOSED"]

(* TicketService.TRIAGE_TAG *)
TRIAGE_TAG == {"AI_TRIAGE_DONE", "AI_TRIAGE_NO_RESULT", "AI_TRIAGE_ERROR"}

(* addTriageTag: newTag = row.tag ? `${row.tag},${triageTag}` : triageTag *)
newTagReplacing(tag, triageTag) == <<triageTag>>
newTag(tag, triageTag) ==
  IF tag # NullText /\ tag # << >> THEN tag \o <<",", triageTag>>
                                   ELSE <<triageTag>>

(* ------------------------------- state --------------------------------- *)
VARIABLES
  tickets,   \* table tickets: id -> row, for the rows that exist
  nextId,    \* next value of the SERIAL id column
  reqs,      \* HTTP requests: slot -> handler state
  jobs,      \* jobs of the ticket queue: job id -> job and handler state
  log        \* table worker_processes, in insertion order

vars == <<tickets, nextId, reqs, jobs, log>>

(* a request slot: the handler's position and the locals it still uses; *)
(* a finished slot keeps the response until the slot is taken again      *)
IdleReq ==
  [op |-> "none", pc |-> "idle", id |-> 0, user |-> NoUser,
   text |-> NullText, ticket |-> NoTicket, result |-> "none"]

JobIds == DOMAIN jobs

Init ==
  /\ tickets = [i \in {} |-> NoTicket]
  /\ nextId = 1
  /\ reqs = [r \in Reqs |-> IdleReq]
  /\ jobs = << >>
  /\ log = << >>

(* --------------------------- HTTP handlers ----------------------------- *)
Exists(id) == id \in DOMAIN tickets

(* prisma.ticket.findUnique / ticketService.getById *)
getById(id) == IF Exists(id) THEN tickets[id] ELSE NoTicket

(* res.success / res.badRequest / res.forbidden / res.notFound, or the   *)
(* error handler when a service call threw                                *)
Respond(r, result) ==
  [reqs EXCEPT ![r] = [IdleReq EXCEPT !.op = reqs[r].op, !.pc = "done",
                                      !.result = result]]

Free(r) == reqs[r].pc \in {"idle", "done"}

HandlerEntry ==
  [create |-> "create_insert", updateDraft |-> "draft_get",
   resolve |-> "resolve_get", close |-> "close_get", delete |-> "delete_get"]

(* a request reaches its handler, in the lowest free slot *)
Begin(r, op, id, user, text) ==
  /\ Free(r)
  /\ \A q \in Reqs : q < r => ~Free(q)
  /\ IF op = "create" THEN id = 0 /\ nextId <= MaxTickets
                      ELSE id \in TicketIds
  /\ IF op \in {"create", "close", "delete"} THEN TRUE ELSE user = NoUser
  /\ IF op \in {"close", "delete"} THEN user # NoUser ELSE TRUE
  /\ IF op = "updateDraft" THEN text \in DraftTexts ELSE text = NullText
  /\ reqs' = [reqs EXCEPT ![r] =
       [IdleReq EXCEPT !.op = op, !.pc = HandlerEntry[op], !.id = id,
                       !.user = user, !.text = text]]
  /\ UNCHANGED <<tickets, nextId, jobs, log>>

(* TicketController.create: await ticketService.create(body, userId) *)
CreateInsert(r) ==
  /\ reqs[r].pc = "create_insert"
  /\ tickets' = (nextId :> NewTicket(nextId, reqs[r].user)) @@ tickets
  /\ reqs' = [reqs EXCEPT ![r].pc = "create_enqueue", ![r].id = nextId]
  /\ nextId' = nextId + 1
  /\ UNCHANGED <<jobs, log>>

NewJob(ticketId) ==
  [ticketId |-> ticketId, state |-> "waiting", pc |-> "none",
   attemptsMade |-> 0, out |-> NoOutput, err |-> NULL, updated |-> NoTicket]

(* job data of TicketController.create: { ticketId: ticket.id } *)
JobDataFirstTicket(ticketId) == 1
JobData(ticketId) == ticketId

(* TicketController.create: await ticketQueue.add('ticket-created', ...) *)
CreateEnqueue(r) ==
  /\ reqs[r].pc = "create_enqueue"
  /\ jobs' = Append(jobs, NewJob(JobData(reqs[r].id)))
  /\ reqs' = Respond(r, "success")
  /\ UNCHANGED <<tickets, nextId, log>>

EditableStatusAny(status) == TRUE
EditableStatus(status) == status \in {"OPEN", "IN_PROGRESS"}

(* TicketController.updateDraft up to the status check *)
DraftGet(r) ==
  /\ reqs[r].pc = "draft_get"
  /\ LET ticket == getById(reqs[r].id)
     IN reqs' =
          IF ticket = NoTicket THEN Respond(r, "notFound")
          ELSE IF ~EditableStatus(ticket.status)
            THEN Respond(r, "badRequest: not OPEN or IN_PROGRESS")
          ELSE [reqs EXCEPT ![r].pc = "draft_update"]
  /\ UNCHANGED <<tickets, nextId, jobs, log>>

(* TicketService.updateAiReplyMessage: findUnique, then update; without *)
(* the row the first returns null (404) and the second throws           *)
DraftUpdate(r) ==
  /\ reqs[r].pc = "draft_update"
  /\ LET id == reqs[r].id
     IN IF Exists(id)
          THEN /\ tickets' = [tickets EXCEPT ![id] =
                    updateAiReplyMessage(tickets[id], reqs[r].text)]
               /\ reqs' = Respond(r, "success")
          ELSE /\ \E res \in {"notFound", "error"} : reqs' = Respond(r, res)
               /\ UNCHANGED tickets
  /\ UNCHANGED <<nextId, jobs, log>>

ResolvableStatusAny(status) == TRUE
ResolvableStatus(status) == status \in {"IN_PROGRESS", "OPEN"}

(* TicketController.resolve: ticket.responseDraft == null *)
NoDraftNever(responseDraft) == FALSE
NoDraft(responseDraft) == responseDraft = NullText

(* the draft TicketController.resolve hands to resolveTicket *)
ResolveArgTrimmed(ticket) == Trim(ticket.responseDraft)
ResolveArg(ticket) == ticket.responseDraft

(* TicketController.resolve up to the draft checks *)
ResolveGet(r) ==
  /\ reqs[r].pc = "resolve_get"
  /\ LET ticket == getById(reqs[r].id)
     IN reqs' =
          IF ticket = NoTicket THEN Respond(r, "notFound")
          ELSE IF ~ResolvableStatus(ticket.status)
            THEN Respond(r, "badRequest: not IN_PROGRESS or OPEN")
          ELSE IF NoDraft(ticket.responseDraft)
            THEN Respond(r, "badRequest: no response draft")
          ELSE IF Len(Trim(ticket.responseDraft)) = 0
            THEN Respond(r, "badRequest: no response draft")
          ELSE [reqs EXCEPT ![r].pc = "resolve_update", ![r].ticket = ticket]
  /\ UNCHANGED <<tickets, nextId, jobs, log>>

(* TicketService.resolveTicket: prisma.ticket.update, throws without row *)
ResolveUpdate(r) ==
  /\ reqs[r].pc = "resolve_update"
  /\ LET id == reqs[r].id
     IN IF Exists(id)
          THEN /\ tickets' = [tickets EXCEPT ![id] =
                    resolveTicket(tickets[id], ResolveArg(reqs[r].ticket))]
               /\ reqs' = Respond(r, "success")
          ELSE /\ reqs' = Respond(r, "error")
               /\ UNCHANGED tickets
  /\ UNCHANGED <<nextId, jobs, log>>

IsCreatorAnyUser(ticket, user) == ticket.userId # NoUser
IsCreatorOrOwnerless(ticket, user) ==
  ticket.userId = NoUser \/ ticket.userId = user
IsCreator(ticket, user) == ticket.userId # NoUser /\ ticket.userId = user

AlreadyClosedNever(status) == FALSE
AlreadyClosedNotOpen(status) == status # "OPEN"
AlreadyClosed(status) == status = "CLOSED"

(* TicketController.close up to the status check *)
CloseGet(r) ==
  /\ reqs[r].pc = "close_get"
  /\ LET ticket == getById(reqs[r].id)
     IN reqs' =
          IF ticket = NoTicket THEN Respond(r, "notFound")
          ELSE IF ~IsCreator(ticket, reqs[r].user)
            THEN Respond(r, "forbidden")
          ELSE IF AlreadyClosed(ticket.status)
            THEN Respond(r, "badRequest: already closed")
          ELSE [reqs EXCEPT ![r].pc = "close_update"]
  /\ UNCHANGED <<tickets, nextId, jobs, log>>

(* TicketService.closeTicket: findUnique, then update *)
CloseUpdate(r) ==
  /\ reqs[r].pc = "close_update"
  /\ LET id == reqs[r].id
     IN IF Exists(id)
          THEN /\ tickets' = [tickets EXCEPT ![id] = closeTicket(tickets[id])]
               /\ reqs' = Respond(r, "success")
          ELSE /\ \E res \in {"notFound", "error"} : reqs' = Respond(r, res)
               /\ UNCHANGED tickets
  /\ UNCHANGED <<nextId, jobs, log>>

(* requireTicketCreator in front of TicketController.delete *)
DeleteGet(r) ==
  /\ reqs[r].pc = "delete_get"
  /\ LET ticket == getById(reqs[r].id)
     IN reqs' =
          IF ticket = NoTicket THEN Respond(r, "notFound")
          ELSE IF ~IsCreator(ticket, reqs[r].user)
            THEN Respond(r, "forbidden")
          ELSE [reqs EXCEPT ![r].pc = "delete_delete"]
  /\ UNCHANGED <<tickets, nextId, jobs, log>>

(* TicketService.delete: findUnique, then prisma.ticket.delete; the     *)
(* worker_processes rows of the ticket go with it (ON DELETE CASCADE)   *)
DeleteDelete(r) ==
  /\ reqs[r].pc = "delete_delete"
  /\ LET id == reqs[r].id
     IN IF Exists(id)
          THEN /\ tickets' = [i \in DOMAIN tickets \ {id} |-> tickets[i]]
               /\ log' = SelectSeq(log, LAMBDA w : w.ticketId # id)
               /\ reqs' = Respond(r, "success")
          ELSE /\ \E res \in {"notFound", "error"} : reqs' = Respond(r, res)
               /\ UNCHANGED <<tickets, log>>
  /\ UNCHANGED <<nextId, jobs>>

(* ----------------------- ticket queue and worker ----------------------- *)
Active == {j \in JobIds : jobs[j].state = "active"}

(* the queue hands a waiting job to a free handler of the worker *)
Deliver(j) ==
  /\ jobs[j].state = "waiting"
  /\ Cardinality(Active) < TICKET_WORKER_CONCURRENCY
  /\ jobs' = [jobs EXCEPT ![j].state = "active", ![j].pc = "load"]
  /\ UNCHANGED <<tickets, nextId, reqs, log>>

(* the handler returned: the job is completed *)
Completed(job) ==
  [NewJob(job.ticketId) EXCEPT !.state = "completed",
                               !.attemptsMade = job.attemptsMade + 1]

(* the handler threw: retry after the backoff delay while attempts remain, *)
(* else the job goes to the failed set                                     *)
FailedAlwaysRetried(job) ==
  [NewJob(job.ticketId) EXCEPT !.attemptsMade = job.attemptsMade + 1,
                               !.state = "delayed"]

Failed(job) ==
  [NewJob(job.ticketId) EXCEPT
     !.attemptsMade = job.attemptsMade + 1,
     !.state = IF job.attemptsMade + 1 < attempts THEN "delayed"
                                                  ELSE "failed"]

(* the backoff delay of a retried job has elapsed *)
BackoffNeverElapses(j) ==
  /\ jobs[j].state = "delayed"
  /\ FALSE
  /\ UNCHANGED vars

BackoffElapsed(j) ==
  /\ jobs[j].state = "delayed"
  /\ jobs' = [jobs EXCEPT ![j].state = "waiting"]
  /\ UNCHANGED <<tickets, nextId, reqs, log>>

(* row of worker_processes written by logWorkerProcess *)
WorkerProcess(j, status, aiReplyMessage, rawAiResponse, errorMessage) ==
  [workerId |-> j, ticketId |-> jobs[j].ticketId, status |-> status,
   aiReplyMessage |-> aiReplyMessage, rawAiResponse |-> rawAiResponse,
   errorMessage |-> errorMessage]

(* logWorkerProcess: prisma.workerProcess.create adds one row *)
logWorkerProcessLatestOnly(w) ==
  Append(SelectSeq(log, LAMBDA x : x.workerId # w.workerId), w)

logWorkerProcess(w) == Append(log, w)

(* worker_processes_ticket_id_fkey: the insert needs the ticket row *)
CanLog(j) == Exists(jobs[j].ticketId)

At(j, pc) == jobs[j].state = "active" /\ jobs[j].pc = pc

(* ticketWorker: prisma.ticket.findUnique *)
WorkerLoad(j) ==
  /\ At(j, "load")
  /\ jobs' = [jobs EXCEPT ![j].pc =
       IF Exists(jobs[j].ticketId) THEN "triage" ELSE "log_not_found"]
  /\ UNCHANGED <<tickets, nextId, reqs, log>>

(* ticketWorker: ticket not found, logWorkerProcess FAILED, return *)
WorkerLogNotFound(j) ==
  /\ At(j, "log_not_found")
  /\ IF CanLog(j)
       THEN /\ log' = logWorkerProcess(
                 WorkerProcess(j, "FAILED", NullText, NoResponse,
                               "Ticket not found"))
            /\ jobs' = [jobs EXCEPT ![j] = Completed(jobs[j])]
       ELSE /\ jobs' = [jobs EXCEPT ![j] = Failed(jobs[j])]
            /\ UNCHANGED log
  /\ UNCHANGED <<tickets, nextId, reqs>>

(* ticketWorker: !triageOutput.valid || !triageOutput.result *)
InvalidOutputOnlyMissing(triageOutput) ==
  triageOutput.result = NullResult
InvalidOutput(triageOutput) ==
  ~triageOutput.valid \/ triageOutput.result = NullResult

(* ticketWorker: await aiService.triage(...) returns an output *)
WorkerTriage(j, raw) ==
  /\ At(j, "triage")
  /\ LET triageOutput == triage(IntText(jobs[j].ticketId), raw)
     IN jobs' = [jobs EXCEPT
          ![j].out = triageOutput,
          ![j].pc = IF InvalidOutput(triageOutput)
                      THEN "log_invalid" ELSE "update"]
  /\ UNCHANGED <<tickets, nextId, reqs, log>>

(* ticketWorker: await aiService.triage(...) rejects *)
WorkerTriageError(j, e) ==
  /\ At(j, "triage")
  /\ jobs' = [jobs EXCEPT ![j].err = e, ![j].pc = "log_failed"]
  /\ UNCHANGED <<tickets, nextId, reqs, log>>

(* ticketWorker: logWorkerProcess INVALID_RESPONSE, return *)
WorkerLogInvalid(j) ==
  /\ At(j, "log_invalid")
  /\ IF CanLog(j)
       THEN /\ log' = logWorkerProcess(
                 WorkerProcess(j, "INVALID_RESPONSE", NullText,
                               jobs[j].out.raw, NULL))
            /\ jobs' = [jobs EXCEPT ![j] = Completed(jobs[j])]
       ELSE /\ jobs' = [jobs EXCEPT ![j].err = "foreign key",
                                    ![j].pc = "log_failed"]
            /\ UNCHANGED log
  /\ UNCHANGED <<tickets, nextId, reqs>>

(* ticketWorker: await ticketService.updateTriage(ticketId, result) *)
WorkerUpdate(j) ==
  /\ At(j, "update")
  /\ LET id == jobs[j].ticketId
     IN IF Exists(id)
          THEN LET t == updateTriage(tickets[id], jobs[j].out.result)
               IN /\ tickets' = [tickets EXCEPT ![id] = t]
                  /\ jobs' = [jobs EXCEPT ![j].updated = t,
                                          ![j].pc = "log_info"]
          ELSE /\ jobs' = [jobs EXCEPT ![j].err = "record not found",
                                       ![j].pc = "log_failed"]
               /\ UNCHANGED tickets
  /\ UNCHANGED <<nextId, reqs, log>>

(* ticketWorker: logWorkerProcess INFO, the handler returns *)
WorkerLogInfo(j) ==
  /\ At(j, "log_info")
  /\ IF CanLog(j)
       THEN /\ log' = logWorkerProcess(
                 WorkerProcess(j, "INFO", jobs[j].out.result.response_draft,
                               jobs[j].out.raw, NULL))
            /\ jobs' = [jobs EXCEPT ![j] = Completed(jobs[j])]
       ELSE /\ jobs' = [jobs EXCEPT ![j].err = "foreign key",
                                    ![j].pc = "log_failed"]
            /\ UNCHANGED log
  /\ UNCHANGED <<tickets, nextId, reqs>>

(* ticketWorker catch: logWorkerProcess FAILED, throw err *)
WorkerLogFailed(j) ==
  /\ At(j, "log_failed")
  /\ log' = IF CanLog(j)
              THEN logWorkerProcess(WorkerProcess(j, "FAILED", NullText,
                                             NoResponse, jobs[j].err))
              ELSE log
  /\ jobs' = [jobs EXCEPT ![j] = Failed(jobs[j])]
  /\ UNCHANGED <<tickets, nextId, reqs>>

(* ------------------------------ behaviour ------------------------------ *)
Ops == {"create", "updateDraft", "resolve", "close", "delete"}

(* a request arrives while no other request is being handled *)
BeginAlone(r, op, id, user, text) ==
  /\ \A q \in Reqs : Free(q)
  /\ Begin(r, op, id, user, text)

(* requests handled one at a time, interleaved with the worker's attempts *)
Next ==
  \/ \E r \in Reqs, op \in Ops, id \in {0} \cup TicketIds,
        user \in {NoUser} \cup Users, text \in {NullText} \cup DraftTexts :
        BeginAlone(r, op, id, user, text)
  \/ \E r \in Reqs : CreateInsert(r)
  \/ \E r \in Reqs : CreateEnqueue(r)
  \/ \E r \in Reqs : DraftGet(r)
  \/ \E r \in Reqs : DraftUpdate(r)
  \/ \E r \in Reqs : ResolveGet(r)
  \/ \E r \in Reqs : ResolveUpdate(r)
  \/ \E r \in Reqs : CloseGet(r)
  \/ \E r \in Reqs : CloseUpdate(r)
  \/ \E r \in Reqs : DeleteGet(r)
  \/ \E r \in Reqs : DeleteDelete(r)
  \/ \E j \in JobIds : Deliver(j)
  \/ \E j \in JobIds : BackoffElapsed(j)
  \/ \E j \in JobIds : WorkerLoad(j)
  \/ \E j \in JobIds : WorkerLogNotFound(j)
  \/ \E j \in JobIds, raw \in ModelResponses : WorkerTriage(j, raw)
  \/ \E j \in JobIds, e \in ModelErrors : WorkerTriageError(j, e)
  \/ \E j \in JobIds : WorkerLogInvalid(j)
  \/ \E j \in JobIds : WorkerUpdate(j)
  \/ \E j \in JobIds : WorkerLogInfo(j)
  \/ \E j \in JobIds : WorkerLogFailed(j)

Spec == Init /\ [][Next]_vars

(* the steps the queue and the worker take for job j; the classifier call *)
(* is taken to settle, with an output or an error                        *)
JobNext(j) ==
  /\ j \in JobIds
  /\ \/ Deliver(j)
     \/ BackoffElapsed(j)
     \/ WorkerLoad(j)
     \/ WorkerLogNotFound(j)
     \/ \E raw \in ModelResponses : WorkerTriage(j, raw)
     \/ \E e \in ModelErrors : WorkerTriageError(j, e)
     \/ WorkerLogInvalid(j)
     \/ WorkerUpdate(j)
     \/ WorkerLogInfo(j)
     \/ WorkerLogFailed(j)

(* the queue and the worker keep running: a job that can take a step     *)
(* eventually takes one                                                  *)
SpecFair == Spec /\ \A j \in 1..MaxTickets : WF_vars(JobNext(j))

(* the steps of job j that the queue, the worker and the database take   *)
(* on their own; the answer of the classifier is the remote service's    *)
(* step, and the handler awaits it without a timeout                     *)
JobLocalNext(j) ==
  /\ j \in JobIds
  /\ \/ Deliver(j)
     \/ BackoffElapsed(j)
     \/ WorkerLoad(j)
     \/ WorkerLogNotFound(j)
     \/ WorkerLogInvalid(j)
     \/ WorkerUpdate(j)
     \/ WorkerLogInfo(j)
     \/ WorkerLogFailed(j)

(* the queue and the worker keep running; nothing bounds the time the    *)
(* classifier takes to answer                                            *)
SpecNoTimeout == Spec /\ \A j \in 1..MaxTickets : WF_vars(JobLocalNext(j))

(* concurrent requests, their awaits interleaved, while the worker is idle *)
NextHttp ==
  \/ \E r \in Reqs, op \in Ops, id \in {0} \cup TicketIds,
        user \in {NoUser} \cup Users, text \in {NullText} \cup DraftTexts :
        Begin(r, op, id, user, text)
  \/ \E r \in Reqs : CreateInsert(r)
  \/ \E r \in Reqs : CreateEnqueue(r)
  \/ \E r \in Reqs : DraftGet(r)
  \/ \E r \in Reqs : DraftUpdate(r)
  \/ \E r \in Reqs : ResolveGet(r)
  \/ \E r \in Reqs : ResolveUpdate(r)
  \/ \E r \in Reqs : CloseGet(r)
  \/ \E r \in Reqs : CloseUpdate(r)
  \/ \E r \in Reqs : DeleteGet(r)
  \/ \E r \in Reqs : DeleteDelete(r)

SpecHttp == Init /\ [][NextHttp]_vars

(* the queue hands a job that had completed to a handler once more (the  *)
(* same job, delivered again); attemptsMade keeps counting               *)
Redeliver(j) ==
  /\ jobs[j].state = "completed"
  /\ jobs[j].attemptsMade < attempts
  /\ jobs' = [jobs EXCEPT ![j].state = "waiting"]
  /\ UNCHANGED <<tickets, nextId, reqs, log>>

(* MaxQueued tickets have been created and their jobs wait in the queue *)
InitQueue ==
  /\ tickets = [i \in 1..MaxQueued |-> NewTicket(i, 1)]
  /\ nextId = MaxQueued + 1
  /\ reqs = [r \in Reqs |-> IdleReq]
  /\ jobs = [i \in 1..MaxQueued |-> NewJob(JobData(i))]
  /\ log = << >>

(* the worker alone, on a queue that may deliver a job again *)
NextQueue ==
  \/ \E j \in JobIds : Deliver(j)
  \/ \E j \in JobIds : BackoffElapsed(j)
  \/ \E j \in JobIds : Redeliver(j)
  \/ \E j \in JobIds : WorkerLoad(j)
  \/ \E j \in JobIds, raw \in ModelResponses : WorkerTriage(j, raw)
  \/ \E j \in JobIds, e \in ModelErrors : WorkerTriageError(j, e)
  \/ \E j \in JobIds : WorkerLogInvalid(j)
  \/ \E j \in JobIds : WorkerUpdate(j)
  \/ \E j \in JobIds : WorkerLogInfo(j)
  \/ \E j \in JobIds : WorkerLogFailed(j)

SpecQueue == InitQueue /\ [][NextQueue]_vars

(* answers a model may give to the triage prompt: texts with and without *)
(* a code fence, and for each member of the object a missing value, a    *)
(* value of the wrong type, and allowed and disallowed values            *)
ResponseTexts ==
  { <<"{}">>, <<" ", "{}", "\n">>,
    <<"FENCE", "json", "\n", "{}", "\n", "FENCE">>,
    <<"FENCE", "{}", "FENCE">>,
    <<"\n", "FENCE", "JSON", " ", "{}", " ", "FENCE", " ">>,
    <<"FENCE", "\n", "{}">>, <<"{}", "\n", "FENCE">>,
    <<"FENCE", "js", "\n", "{}", "\n", "FENCE">>,
    <<"x">>, <<"{}", "x">>, << >> }

TicketIdValues == {Undefined, Num(10), Str(<<"9">>)}

CategoryValues ==
  {Undefined, JsonNull, Str(<<"Billing">>), Str(<<"Feature Request">>),
   Str(<<" ", "Billing">>), Str(<<"billing">>)}

SentimentValues ==
  {Undefined, Num(10), Num(100), Num(0), Num(110), Num(75),
   Str(<<"7">>), Str(<<"7", ".", "9">>), Str(<<"a">>)}

UrgencyValues ==
  {Undefined, Str(<<"High">>), Str(<<"Low", "\n">>), Str(<<"URGENT">>)}

DraftValues ==
  {Undefined, Num(10), Str(<< >>), Str(<<" ">>), Str(<<"\n", " ">>),
   Str(<<" ", "a", " ">>)}

ResponseObjects ==
  [ticket_id : TicketIdValues, category : CategoryValues,
   sentiment_score : SentimentValues, urgency : UrgencyValues,
   response_draft : DraftValues]

(* a text without the token "{}" holds no object *)
RawResponses ==
  { raw \in [text : ResponseTexts, obj : ResponseObjects \cup {NoObject}] :
      (\E i \in 1..Len(raw.text) : raw.text[i] = "{}") <=> raw.obj # NoObject }

(* a ticket was created, its job delivered and the ticket loaded: the   *)
(* handler is about to await aiService.triage                           *)
InitParse ==
  /\ tickets = [i \in {1} |-> NewTicket(i, 1)]
  /\ nextId = 2
  /\ reqs = [r \in Reqs |-> IdleReq]
  /\ jobs = [i \in {1} |-> [NewJob(JobData(i)) EXCEPT !.state = "active",
                                                     !.pc = "triage"]]
  /\ log = << >>

(* one attempt of the handler from the classifier's answer to its end *)
NextParse ==
  \/ \E j \in JobIds :
       At(j, "triage") /\ \E raw \in RawResponses : WorkerTriage(j, raw)
  \/ \E j \in JobIds : WorkerLogInvalid(j)
  \/ \E j \in JobIds : WorkerUpdate(j)
  \/ \E j \in JobIds : WorkerLogInfo(j)

SpecParse == InitParse /\ [][NextParse]_vars

(* tags a ticket may carry before triage: none, or the tag of an update *)
(* request (an optional string)                                          *)
InitialTags == {NullText, << >>, <<"vip">>}

(* the markers a tag holds *)
Markers(tag) ==
  IF tag = NullText THEN << >> ELSE SelectSeq(tag, LAMBDA c : c # ",")

(* a caller invokes ticketService.addTriageTag(ticketId, triageTag) *)
TagBegin(r, ticketId, triageTag) ==
  /\ \A q \in Reqs : Free(q)
  /\ \A q \in Reqs : q < r => reqs[q].pc = "done"
  /\ reqs[r].pc = "idle"
  /\ Exists(ticketId) => Len(Markers(tickets[ticketId].tag)) <= MaxMarkers
  /\ reqs' = [reqs EXCEPT ![r] =
       [IdleReq EXCEPT !.op = "addTriageTag", !.pc = "tag_get",
                       !.id = ticketId, !.text = <<triageTag>>]]
  /\ UNCHANGED <<tickets, nextId, jobs, log>>

(* addTriageTag: prisma.ticket.findUnique({ select: { tag: true } }) *)
TagGet(r) ==
  /\ reqs[r].pc = "tag_get"
  /\ reqs' = IF Exists(reqs[r].id)
       THEN [reqs EXCEPT ![r].pc = "tag_update",
                         ![r].ticket = [NoTicket EXCEPT
                                          !.tag = tickets[reqs[r].id].tag]]
       ELSE Respond(r, "Ticket not found")
  /\ UNCHANGED <<tickets, nextId, jobs, log>>

(* addTriageTag: prisma.ticket.update({ data: { tag: newTag } }) *)
TagUpdate(r) ==
  /\ reqs[r].pc = "tag_update"
  /\ IF Exists(reqs[r].id)
       THEN /\ tickets' = [tickets EXCEPT ![reqs[r].id].tag =
                             newTag(reqs[r].ticket.tag, reqs[r].text[1])]
            /\ reqs' = Respond(r, "success")
       ELSE /\ reqs' = Respond(r, "error")
            /\ UNCHANGED tickets
  /\ UNCHANGED <<nextId, jobs, log>>

(* a slot whose call has returned is used again *)
TagReturn(r) ==
  /\ \A q \in Reqs : reqs[q].pc = "done"
  /\ reqs' = [q \in Reqs |-> IdleReq]
  /\ UNCHANGED <<tickets, nextId, jobs, log>>

(* one ticket exists, with or without a tag; nothing is queued *)
InitTag ==
  /\ \E tag \in InitialTags :
       tickets = [i \in {1} |-> [NewTicket(i, 1) EXCEPT !.tag = tag]]
  /\ nextId = 2
  /\ reqs = [r \in Reqs |-> IdleReq]
  /\ jobs = << >>
  /\ log = << >>

(* calls of addTriageTag, one after the other, on the ticket that exists *)
(* and on an id that has no row                                          *)
NextTag ==
  \/ \E r \in Reqs, ticketId \in 1..2, triageTag \in TRIAGE_TAG :
       TagBegin(r, ticketId, triageTag)
  \/ \E r \in Reqs : TagGet(r)
  \/ \E r \in Reqs : TagUpdate(r)
  \/ \E r \in Reqs : TagReturn(r)

SpecTag == InitTag /\ [][NextTag]_vars

(* a caller invokes ticketService.addTriageTag(ticketId, triageTag) while *)
(* another call may still be between its read and its write               *)
TagCall(r, ticketId, triageTag) ==
  /\ \A q \in Reqs : q < r => reqs[q].pc # "idle"
  /\ reqs[r].pc = "idle"
  /\ Exists(ticketId) => Len(Markers(tickets[ticketId].tag)) <= MaxMarkers
  /\ reqs' = [reqs EXCEPT ![r] =
       [IdleReq EXCEPT !.op = "addTriageTag", !.pc = "tag_get",
                       !.id = ticketId, !.text = <<triageTag>>]]
  /\ UNCHANGED <<tickets, nextId, jobs, log>>

(* concurrent calls of addTriageTag, their awaits interleaved *)
NextTagRace ==
  \/ \E r \in Reqs, ticketId \in 1..2, triageTag \in TRIAGE_TAG :
       TagCall(r, ticketId, triageTag)
  \/ \E r \in Reqs : TagGet(r)
  \/ \E r \in Reqs : TagUpdate(r)
  \/ \E r \in Reqs : TagReturn(r)

SpecTagRace == InitTag /\ [][NextTagRace]_vars

(* ------------------------------ properties ----------------------------- *)
(* request r takes a step of its handler *)
Steps(r) == reqs'[r] # reqs[r]

(* job j takes a step of its handler *)
JobSteps(j) == jobs'[j] # jobs[j]

(* a text that is empty or all whitespace *)
IsBlank(s) == \A i \in 1..Len(s) : IsSpace(s[i])

Row(id) == tickets[id]

(* C1: when the worker applies a valid triage result to an existing OPEN  *)
(* ticket, the ticket gets status IN_PROGRESS, the result's category,     *)
(* sentiment, urgency and draft, and replyMadeBy AI; and the attempt then *)
(* appends exactly one INFO record carrying the draft and the raw text.   *)
C1_TriageMovesOpenToInProgress ==
  [][\A j \in JobIds :
       LET id == jobs[j].ticketId
           res == jobs[j].out.result
       IN /\ (At(j, "update") /\ JobSteps(j) /\ Exists(id)
                /\ Row(id).status = "OPEN")
              => /\ tickets'[id].status = "IN_PROGRESS"
                 /\ tickets'[id].category = res.category
                 /\ tickets'[id].sentiment = res.sentiment_score
                 /\ tickets'[id].urgency = res.urgency
                 /\ tickets'[id].responseDraft = res.response_draft
                 /\ tickets'[id].replyMadeBy = "AI"
          /\ (At(j, "log_info") /\ jobs'[j].state = "completed")
              => log' = Append(log,
                   [workerId |-> j, ticketId |-> id, status |-> "INFO",
                    aiReplyMessage |-> res.response_draft,
                    rawAiResponse |-> jobs[j].out.raw,
                    errorMessage |-> NULL])]_vars

StatusEdges ==
  { <<"OPEN", "IN_PROGRESS">>, <<"OPEN", "RESOLVED">>,
    <<"IN_PROGRESS", "RESOLVED">>, <<"OPEN", "CLOSED">>,
    <<"IN_PROGRESS", "CLOSED">>, <<"RESOLVED", "CLOSED">> }

(* C3: in every step a ticket's status stays the same or moves along one  *)
(* of the edges OPEN->IN_PROGRESS, OPEN->RESOLVED, IN_PROGRESS->RESOLVED, *)
(* OPEN->CLOSED, IN_PROGRESS->CLOSED, RESOLVED->CLOSED; a CLOSED ticket   *)
(* never changes status again.                                            *)
C3_StatusFollowsEdges ==
  [][\A id \in DOMAIN tickets :
       id \in DOMAIN tickets' =>
         \/ tickets'[id].status = Row(id).status
         \/ <<Row(id).status, tickets'[id].status>> \in StatusEdges]_vars

(* C4: a resolve request that reads a ticket with status OPEN or          *)
(* IN_PROGRESS and a draft that is non-null and non-blank is accepted,    *)
(* and its write sets response to that draft untrimmed and status to      *)
(* RESOLVED and changes no other field of the ticket, nor another ticket. *)
C4_ResolveCopiesDraft ==
  [][\A r \in Reqs :
       LET id == reqs[r].id
       IN /\ (reqs[r].pc = "resolve_get" /\ Steps(r) /\ Exists(id)
                /\ Row(id).status \in {"OPEN", "IN_PROGRESS"}
                /\ Row(id).responseDraft # NullText
                /\ ~IsBlank(Row(id).responseDraft))
              => /\ reqs'[r].pc = "resolve_update"
                 /\ reqs'[r].ticket = Row(id)
                 /\ tickets' = tickets
          /\ (reqs[r].pc = "resolve_update" /\ Steps(r) /\ Exists(id))
              => /\ reqs'[r].result = "success"
                 /\ tickets' = [tickets EXCEPT ![id] =
                      [Row(id) EXCEPT
                         !.response = reqs[r].ticket.responseDraft,
                         !.status = "RESOLVED"]]]_vars

(* a resolve has succeeded and stored a draft with its leading space *)
C4_Witness ==
  \E r \in Reqs, id \in DOMAIN tickets :
    /\ reqs[r].pc = "done" /\ reqs[r].op = "resolve"
    /\ reqs[r].result = "success"
    /\ Row(id).status = "RESOLVED"
    /\ Row(id).response = <<" ", "c">>
    /\ Row(id).category # NULL

(* C5: a resolve request that reads a ticket whose status is RESOLVED or  *)
(* CLOSED, or whose draft is null, empty or whitespace-only, ends with a  *)
(* bad-request response and writes nothing.                               *)
C5_ResolveRejected ==
  [][\A r \in Reqs :
       LET id == reqs[r].id
       IN (reqs[r].pc = "resolve_get" /\ Steps(r) /\ Exists(id)
             /\ \/ Row(id).status \in {"RESOLVED", "CLOSED"}
                \/ Row(id).responseDraft = NullText
                \/ IsBlank(Row(id).responseDraft))
           => /\ reqs'[r].pc = "done"
              /\ reqs'[r].result \in {"badRequest: not IN_PROGRESS or OPEN",
                                      "badRequest: no response draft"}
              /\ tickets' = tickets]_vars

(* a resolve was rejected on an OPEN ticket whose draft is one space *)
C5_Witness ==
  \E r \in Reqs, id \in DOMAIN tickets :
    /\ reqs[r].pc = "done" /\ reqs[r].op = "resolve"
    /\ reqs[r].result = "badRequest: no response draft"
    /\ Row(id).status = "OPEN"
    /\ Row(id).responseDraft = <<" ">>

(* C6: an edit-draft request goes on to its write only when the status   *)
(* it reads is OPEN or IN_PROGRESS; one that reads a RESOLVED or CLOSED   *)
(* ticket ends with a bad-request response and writes nothing.            *)
C6_EditOnlyWhileOpen ==
  [][\A r \in Reqs :
       LET id == reqs[r].id
       IN (reqs[r].pc = "draft_get" /\ Steps(r) /\ Exists(id))
           => /\ tickets' = tickets
              /\ IF Row(id).status \in {"OPEN", "IN_PROGRESS"}
                   THEN reqs'[r].pc = "draft_update"
                   ELSE /\ reqs'[r].pc = "done"
                        /\ reqs'[r].result =
                             "badRequest: not OPEN or IN_PROGRESS"]_vars

(* an edit was rejected on a ticket that is RESOLVED or CLOSED *)
C6_Witness ==
  \E r \in Reqs, id \in DOMAIN tickets :
    /\ reqs[r].pc = "done" /\ reqs[r].op = "updateDraft"
    /\ reqs[r].result = "badRequest: not OPEN or IN_PROGRESS"
    /\ Row(id).status \in {"RESOLVED", "CLOSED"}

C8_CloseOnlyByCreator ==
  [][\A r \in Reqs :
       LET id == reqs[r].id
       IN /\ (reqs[r].pc = "close_get" /\ Steps(r) /\ Exists(id)
                /\ \/ Row(id).userId = NoUser
                   \/ Row(id).userId # reqs[r].user)
              => /\ reqs'[r].pc = "done"
                 /\ reqs'[r].result = "forbidden"
                 /\ tickets' = tickets
          /\ (reqs[r].pc = "close_update" /\ Steps(r) /\ Exists(id))
              => Row(id).userId = reqs[r].user]_vars

(* a close by another user than the creator was refused *)
C8_Witness ==
  \E r \in Reqs, id \in DOMAIN tickets :
    /\ reqs[r].pc = "done" /\ reqs[r].op = "close"
    /\ reqs[r].result = "forbidden"
    /\ Row(id).userId # NoUser
    /\ Row(id).status # "CLOSED"

(* C9: a close request by the owner that reads a CLOSED ticket ends with  *)
(* the 'already closed' bad-request response and writes nothing.          *)
C9_SecondCloseRejected ==
  [][\A r \in Reqs :
       LET id == reqs[r].id
       IN (reqs[r].pc = "close_get" /\ Steps(r) /\ Exists(id)
             /\ Row(id).userId = reqs[r].user
             /\ Row(id).status = "CLOSED")
           => /\ reqs'[r].pc = "done"
              /\ reqs'[r].result = "badRequest: already closed"
              /\ tickets' = tickets]_vars

(* a second close was rejected as already closed *)
C9_Witness ==
  \E r \in Reqs, id \in DOMAIN tickets :
    /\ reqs[r].pc = "done" /\ reqs[r].op = "close"
    /\ reqs[r].result = "badRequest: already closed"
    /\ Row(id).status = "CLOSED"

(* C10: a close request by the owner that reads a ticket in a status      *)
(* other than CLOSED is accepted, and its write sets status to CLOSED and *)
(* changes no other field of the ticket, nor another ticket.              *)
C10_CloseSetsStatusOnly ==
  [][\A r \in Reqs :
       LET id == reqs[r].id
       IN /\ (reqs[r].pc = "close_get" /\ Steps(r) /\ Exists(id)
                /\ Row(id).userId = reqs[r].user
                /\ Row(id).status \in {"OPEN", "IN_PROGRESS", "RESOLVED"})
              => /\ reqs'[r].pc = "close_update"
                 /\ tickets' = tickets
          /\ (reqs[r].pc = "close_update" /\ Steps(r) /\ Exists(id))
              => /\ reqs'[r].result = "success"
                 /\ tickets' = [tickets EXCEPT ![id] =
                      [Row(id) EXCEPT !.status = "CLOSED"]]]_vars

(* the owner has closed a resolved, triaged ticket: response, draft and   *)
(* classification are still there                                         *)
C10_Witness ==
  \E r \in Reqs, id \in DOMAIN tickets :
    /\ reqs[r].pc = "done" /\ reqs[r].op = "close"
    /\ reqs[r].result = "success"
    /\ Row(id).status = "CLOSED"
    /\ Row(id).response # NullText
    /\ Row(id).responseDraft # NullText
    /\ Row(id).replyMadeBy = "AI"
    /\ Row(id).category # NULL

(* the worker_processes rows written by the handler of job j *)
RecordsOf(j, status) ==
  SelectSeq(log, LAMBDA w : w.workerId = j /\ w.status = status)

(* C11: when the classifier's output is unparseable or has a blank draft, *)
(* the worker goes on to the INVALID_RESPONSE record without touching any *)
(* ticket; that step appends exactly one INVALID_RESPONSE record carrying *)
(* the raw model text, leaves every ticket unchanged and completes the    *)
(* job; a completed job never leaves the completed state, so it is not    *)
(* retried.                                                               *)
C11_InvalidResponseNotRetried ==
  [][\A j \in JobIds :
       /\ (At(j, "triage") /\ JobSteps(j) /\ jobs'[j].pc # "log_failed"
             /\ \/ ~Parses(jobs'[j].out.raw)
                \/ jobs'[j].out.raw.obj.response_draft.t # "string"
                \/ IsBlank(jobs'[j].out.raw.obj.response_draft.s))
           => /\ jobs'[j].pc = "log_invalid"
              /\ jobs'[j].state = "active"
              /\ tickets' = tickets
              /\ log' = log
       /\ (At(j, "log_invalid") /\ JobSteps(j))
           => /\ log' = Append(log,
                   [workerId |-> j, ticketId |-> jobs[j].ticketId,
                    status |-> "INVALID_RESPONSE", aiReplyMessage |-> NullText,
                    rawAiResponse |-> jobs[j].out.raw, errorMessage |-> NULL])
              /\ tickets' = tickets
              /\ jobs'[j].state = "completed"
       /\ jobs[j].state = "completed" => jobs'[j] = jobs[j]]_vars

(* C12: when the classifier call rejects, the worker goes to its catch    *)
(* block without touching any ticket; the catch block appends exactly one *)
(* FAILED record carrying the message of the error, leaves every ticket   *)
(* unchanged and rethrows that error, so the attempt counts as failed:    *)
(* the job is delayed for a retry while fewer than `attempts` attempts    *)
(* were made and else goes to the failed set.                             *)
C12_ClassifierErrorFailsJob ==
  [][\A j \in JobIds :
       /\ (At(j, "triage") /\ jobs'[j].pc = "log_failed")
           => /\ jobs'[j].err \in ModelErrors
              /\ jobs'[j].state = "active"
              /\ tickets' = tickets
              /\ log' = log
       /\ (At(j, "log_failed") /\ JobSteps(j))
           => /\ log' = Append(log,
                   [workerId |-> j, ticketId |-> jobs[j].ticketId,
                    status |-> "FAILED", aiReplyMessage |-> NullText,
                    rawAiResponse |-> NoResponse,
                    errorMessage |-> jobs[j].err])
              /\ tickets' = tickets
              /\ jobs'[j].attemptsMade = jobs[j].attemptsMade + 1
              /\ jobs'[j].state =
                   IF jobs[j].attemptsMade + 1 < attempts THEN "delayed"
                                                          ELSE "failed"]_vars

(* C13: when the worker finds no ticket row for its job, the step that    *)
(* follows appends one FAILED record with the 'Ticket not found' message  *)
(* and the job completes, so that it is never delivered again.            *)
C13_MissingTicketRecordedOnce ==
  [][\A j \in JobIds :
       (At(j, "log_not_found") /\ JobSteps(j))
         => /\ log' = Append(log,
                 [workerId |-> j, ticketId |-> jobs[j].ticketId,
                  status |-> "FAILED", aiReplyMessage |-> NullText,
                  rawAiResponse |-> NoResponse,
                  errorMessage |-> "Ticket not found"])
            /\ jobs'[j].state = "completed"]_vars

C15_ExhaustedJobLeavesTrail ==
  [][\A j \in JobIds :
       (jobs[j].state = "active" /\ jobs'[j].state \in {"delayed", "failed"})
         => /\ jobs[j].updated = NoTicket
            /\ tickets' = tickets
            /\ jobs'[j].state = "failed"
                 => Len(SelectSeq(log', LAMBDA w :
                          w.workerId = j /\ w.status = "FAILED")) = attempts
    ]_vars

(* C16: a triage update, whatever the ticket held before (the result of   *)
(* an earlier attempt included), leaves category, sentiment, urgency and  *)
(* draft equal to the result being applied and replyMadeBy AI, touches no *)
(* other field, and applying the same result again changes nothing; each  *)
(* attempt that ends successfully adds exactly one INFO record to those   *)
(* the job has already written.                                           *)
C16_RedeliveryOverwrites ==
  [][\A j \in JobIds :
       LET id == jobs[j].ticketId
           res == jobs[j].out.result
       IN /\ (At(j, "update") /\ JobSteps(j) /\ Exists(id))
              => /\ tickets'[id].category = res.category
                 /\ tickets'[id].sentiment = res.sentiment_score
                 /\ tickets'[id].urgency = res.urgency
                 /\ tickets'[id].responseDraft = res.response_draft
                 /\ tickets'[id].replyMadeBy = "AI"
                 /\ \A f \in {"id", "userId", "status", "response", "tag"} :
                      tickets'[id][f] = Row(id)[f]
                 /\ updateTriage(tickets'[id], res) = tickets'[id]
                 /\ \A i \in DOMAIN tickets \ {id} : tickets'[i] = Row(i)
          /\ (At(j, "log_info") /\ jobs'[j].state = "completed")
              => /\ log' = Append(log,
                      [workerId |-> j, ticketId |-> id, status |-> "INFO",
                       aiReplyMessage |-> res.response_draft,
                       rawAiResponse |-> jobs[j].out.raw,
                       errorMessage |-> NULL])
                 /\ Len(SelectSeq(log', LAMBDA w :
                          w.workerId = j /\ w.status = "INFO"))
                      = Len(RecordsOf(j, "INFO")) + 1]_vars

(* a job has succeeded twice with different results: two INFO records,    *)
(* and the ticket holds the second result, not the first                  *)
C16_Witness ==
  \E j \in JobIds :
    LET info == RecordsOf(j, "INFO")
        t == tickets[jobs[j].ticketId]
    IN /\ jobs[j].state = "completed" /\ jobs[j].attemptsMade = 2
       /\ Len(info) = 2
       /\ info[1].aiReplyMessage = <<"a">>
       /\ info[2].aiReplyMessage = <<" ", "b">>
       /\ t.responseDraft = <<" ", "b">>
       /\ t.category = "Technical" /\ t.sentiment = 5 /\ t.urgency = "Medium"

(* C17: when the insert of an audit record is rejected (the not-found     *)
(* record, the INVALID_RESPONSE record or the INFO record after a         *)
(* successful update), the attempt still ends as it would have with a     *)
(* working log: the job completes and is not scheduled for a retry.       *)
C17_LogFailureNotPropagated ==
  [][\A j \in JobIds :
       /\ (jobs[j].state = "active"
             /\ jobs[j].pc \in {"log_not_found", "log_invalid", "log_info"}
             /\ ~CanLog(j) /\ JobSteps(j))
           => jobs'[j].state = "completed"
       /\ (jobs[j].state = "active"
             /\ jobs'[j].state \in {"delayed", "failed"})
           => jobs[j].err \in ModelErrors]_vars

Classified(t) ==
  t.category # NULL /\ t.sentiment # NullInt /\ t.urgency # NULL

(* the ticket's draft is one a human supplied *)
HumanDraft(t) == t.replyMadeBy = "HUMAN_AI" /\ t.responseDraft # NullText

(* C19 (as stated): in every reachable state a ticket whose status is     *)
(* IN_PROGRESS, RESOLVED or CLOSED has non-null classification fields or  *)
(* a draft supplied by a human.                                           *)
C19_LaterStatusHasTriageOrDraft ==
  \A id \in DOMAIN tickets :
    Row(id).status \in {"IN_PROGRESS", "RESOLVED", "CLOSED"}
      => Classified(Row(id)) \/ HumanDraft(Row(id))

(* C19 (amended): in every reachable state a ticket whose status is       *)
(* IN_PROGRESS or RESOLVED has non-null classification fields or a draft  *)
(* supplied by a human; a CLOSED ticket that has neither was closed       *)
(* straight from OPEN and has no response.                                *)
C19_ResolvedHasTriageOrDraft ==
  \A id \in DOMAIN tickets :
    /\ Row(id).status \in {"IN_PROGRESS", "RESOLVED"}
         => Classified(Row(id)) \/ HumanDraft(Row(id))
    /\ (Row(id).status = "CLOSED"
          /\ ~(Classified(Row(id)) \/ HumanDraft(Row(id))))
         => Row(id).response = NullText /\ Row(id).responseDraft = NullText

(* a ticket that was never triaged has been resolved on a human's draft,  *)
(* and a second look: its classification is still empty                   *)
C19_Witness ==
  \E id \in DOMAIN tickets :
    /\ Row(id).status = "RESOLVED"
    /\ ~Classified(Row(id))
    /\ HumanDraft(Row(id))
    /\ Row(id).response = <<" ", "c">>

C21_OneRecordPerAttempt ==
  [][\A j \in JobIds :
       (jobs[j].state = "active" /\ JobSteps(j))
         => IF jobs'[j].state = "active"
              THEN log' = log
              ELSE /\ Len(log') = Len(log) + 1
                   /\ SubSeq(log', 1, Len(log)) = log
                   /\ log'[Len(log')].workerId = j
                   /\ log'[Len(log')].ticketId = jobs[j].ticketId
                   /\ log'[Len(log')].status
                        \in {"INFO", "INVALID_RESPONSE", "FAILED"}]_vars

(* the records of ticket id in a log, in insertion order *)
RecordsOfTicket(rows, id) == SelectSeq(rows, LAMBDA w : w.ticketId = id)

IsPrefix(a, b) == Len(a) <= Len(b) /\ SubSeq(b, 1, Len(a)) = a

Terminal(j) == j \in JobIds /\ jobs[j].state \in {"completed", "failed"}

Answered(j) == jobs[j].out # NoOutput

(* the members of a parsed object are all as the prompt demands *)
WellFormed(obj) ==
  /\ obj.ticket_id.t = "string"
  /\ obj.category.t = "string" /\ Len(obj.category.s) = 1
  /\ obj.category.s[1] \in TRIAGE_CATEGORIES
  /\ obj.urgency.t = "string" /\ Len(obj.urgency.s) = 1
  /\ obj.urgency.s[1] \in TRIAGE_URGENCIES
  /\ obj.sentiment_score.t = "number" /\ obj.sentiment_score.n % 10 = 0
  /\ obj.sentiment_score.n >= 10 /\ obj.sentiment_score.n <= 100
  /\ obj.response_draft.t = "string" /\ ~IsBlank(obj.response_draft.s)

(* C25: when the model's answer is a JSON object whose ticket_id is a     *)
(* string, whose category and urgency are allowed values, whose           *)
(* sentiment_score is an integer in 1..10 and whose response_draft is not *)
(* blank, the triage result holds exactly those five values and is valid. *)
C25_WellFormedIsIdentity ==
  \A j \in JobIds :
    LET o == jobs[j].out
        obj == o.raw.obj
    IN (Answered(j) /\ o.raw.text = <<"{}">> /\ WellFormed(obj))
         => /\ o.valid
            /\ o.result =
                 [ticket_id |-> obj.ticket_id.s,
                  category |-> obj.category.s[1],
                  sentiment_score |-> obj.sentiment_score.n \div 10,
                  urgency |-> obj.urgency.s[1],
                  response_draft |-> obj.response_draft.s]

(* a well-formed answer with the highest sentiment, a ticket_id other    *)
(* than the ticket's own and a padded draft was returned as it was       *)
C25_Witness ==
  \E j \in JobIds :
    /\ Answered(j) /\ jobs[j].out.raw.text = <<"{}">>
    /\ WellFormed(jobs[j].out.raw.obj)
    /\ jobs[j].out.valid
    /\ jobs[j].out.result.sentiment_score = 10
    /\ jobs[j].out.result.category = "Feature Request"
    /\ jobs[j].out.result.ticket_id = <<"9">>
    /\ jobs[j].out.result.response_draft = <<" ", "a", " ">>

(* answers that are not JSON: free text, an object followed by text, an  *)
(* empty answer, a fence whose tag is not json                            *)
UnparseableTexts ==
  { <<"x">>, <<"{}", "x">>, << >>,
    <<"FENCE", "js", "\n", "{}", "\n", "FENCE">> }

HasDraft(obj) ==
  obj.response_draft.t = "string" /\ ~IsBlank(obj.response_draft.s)

(* C27: for an answer that parses, the output is valid exactly when the   *)
(* draft member is a string that is not blank; when the draft is missing, *)
(* not a string, empty or all whitespace the output is invalid but its    *)
(* result is not null: category, sentiment_score and urgency hold allowed *)
(* values, ticket_id is set and response_draft is the string received or  *)
(* the empty string; the handler then takes its INVALID_RESPONSE branch.  *)
C27_BlankDraftInvalidWithResult ==
  \A j \in JobIds :
    LET o == jobs[j].out
        obj == o.raw.obj
    IN (Answered(j) /\ o.raw.text \in ResponseTexts \ UnparseableTexts)
         => /\ o.valid <=> HasDraft(obj)
            /\ ~HasDraft(obj)
                 => /\ ~o.valid
                    /\ o.result # NullResult
                    /\ o.result.ticket_id # NullText
                    /\ o.result.category \in TRIAGE_CATEGORIES
                    /\ o.result.sentiment_score \in 1..10
                    /\ o.result.urgency \in TRIAGE_URGENCIES
                    /\ o.result.response_draft =
                         IF obj.response_draft.t = "string"
                           THEN obj.response_draft.s ELSE << >>
                    /\ At(j, "log_invalid")

(* an answer with a whitespace-only draft came back invalid with its     *)
(* classification kept                                                   *)
C27_Witness ==
  \E j \in JobIds :
    /\ Answered(j) /\ jobs[j].out.raw.text = <<"{}">>
    /\ jobs[j].out.raw.obj.response_draft = Str(<<"\n", " ">>)
    /\ ~jobs[j].out.valid
    /\ jobs[j].out.result.category = "Feature Request"
    /\ jobs[j].out.result.sentiment_score = 7
    /\ jobs[j].out.result.urgency = "High"
    /\ jobs[j].out.result.response_draft = <<"\n", " ">>

(* the answers that parse: the object alone, padded or inside a fence *)
ParseableTexts == ResponseTexts \ UnparseableTexts

(* the member is a string that is exactly the allowed value c *)
Exactly(value, c) == value.t = "string" /\ value.s = <<c>>

(* the member is a number that is an integer in 1..10 *)
IntegerInRange(value) ==
  value.t = "number" /\ value.n % 10 = 0 /\ value.n \in 10..100

(* C28 as stated: for an answer that parses, category and urgency are the *)
(* member when it is exactly an allowed string and else Technical and     *)
(* Medium; sentiment_score is the member when it is an integer in 1..10   *)
(* and else 5; the output is valid unless the draft is blank.             *)
C28_DefaultsUnlessExactlyAllowed ==
  \A j \in JobIds :
    LET o == jobs[j].out
        obj == o.raw.obj
    IN (Answered(j) /\ o.raw.text \in ParseableTexts)
         => /\ o.result.category =
                 IF \E c \in TRIAGE_CATEGORIES : Exactly(obj.category, c)
                   THEN obj.category.s[1] ELSE "Technical"
            /\ o.result.urgency =
                 IF \E u \in TRIAGE_URGENCIES : Exactly(obj.urgency, u)
                   THEN obj.urgency.s[1] ELSE "Medium"
            /\ o.result.sentiment_score =
                 IF IntegerInRange(obj.sentiment_score)
                   THEN obj.sentiment_score.n \div 10 ELSE 5
            /\ o.valid <=> HasDraft(obj)

(* the text is the word c with nothing but whitespace around it *)
Padded(text, c) ==
  \E i \in 1..Len(text) :
    /\ text[i] = c
    /\ \A k \in 1..Len(text) : k # i => IsSpace(text[k])

(* the integer a text begins with, after leading whitespace and a sign:   *)
(* the digits up to the first character that is not one; NaN without any  *)
LeadingInteger(text) ==
  LET first == CHOOSE k \in 1..(Len(text) + 1) :
                 /\ \A i \in 1..(k - 1) : IsSpace(text[i])
                 /\ k = Len(text) + 1 \/ ~IsSpace(text[k])
      signed == first <= Len(text) /\ text[first] \in {"+", "-"}
      from == IF signed THEN first + 1 ELSE first
      to == CHOOSE k \in (from - 1)..Len(text) :
              /\ \A i \in from..k : IsDigit(text[i])
              /\ k = Len(text) \/ ~IsDigit(text[k + 1])
      magnitude == 10 * DigitsValue(SubSeq(text, from, to))
  IN IF to < from THEN NaN
     ELSE Finite(IF signed /\ text[first] = "-" THEN 0 - magnitude
                                                 ELSE magnitude)

(* C28: for an answer that parses, category and urgency are the allowed   *)
(* value that the member's string form is once surrounding whitespace is  *)
(* dropped, and Technical and Medium when there is none; sentiment_score  *)
(* is the member when it is a number that is an integer in 1..10, the     *)
(* integer its string form begins with when the member is not a number    *)
(* and that integer is in 1..10, and else 5; the output is valid exactly  *)
(* when the draft is not blank.                                           *)
C28_DefaultsUnlessAllowedTrimmed ==
  \A j \in JobIds :
    LET o == jobs[j].out
        obj == o.raw.obj
        score == IF obj.sentiment_score.t = "number"
                   THEN Finite(obj.sentiment_score.n)
                   ELSE LeadingInteger(String(obj.sentiment_score))
    IN (Answered(j) /\ o.raw.text \in ParseableTexts)
         => /\ \A c \in TRIAGE_CATEGORIES :
                 Padded(String(obj.category), c) => o.result.category = c
            /\ (\A c \in TRIAGE_CATEGORIES : ~Padded(String(obj.category), c))
                 => o.result.category = "Technical"
            /\ \A u \in TRIAGE_URGENCIES :
                 Padded(String(obj.urgency), u) => o.result.urgency = u
            /\ (\A u \in TRIAGE_URGENCIES : ~Padded(String(obj.urgency), u))
                 => o.result.urgency = "Medium"
            /\ o.result.sentiment_score =
                 IF ~score.nan /\ score.n % 10 = 0 /\ score.n \in 10..100
                   THEN score.n \div 10 ELSE 5
            /\ o.valid <=> HasDraft(obj)

(* a padded category, a padded urgency and a sentiment given as the text *)
(* 7.9 were accepted as Billing, Low and 7 in a valid output             *)
C28_Witness ==
  \E j \in JobIds :
    /\ Answered(j) /\ jobs[j].out.raw.text \in ParseableTexts
    /\ jobs[j].out.raw.obj.category = Str(<<" ", "Billing">>)
    /\ jobs[j].out.raw.obj.urgency = Str(<<"Low", "\n">>)
    /\ jobs[j].out.raw.obj.sentiment_score = Str(<<"7", ".", "9">>)
    /\ jobs[j].out.result.category = "Billing"
    /\ jobs[j].out.result.urgency = "Low"
    /\ jobs[j].out.result.sentiment_score = 7
    /\ jobs[j].out.valid

(* the JSON object inside a Markdown code fence: tagged json or JSON or *)
(* untagged, with and without whitespace around the fence and the object *)
FencedTexts ==
  { <<"FENCE", "json", "\n", "{}", "\n", "FENCE">>,
    <<"FENCE", "{}", "FENCE">>,
    <<"\n", "FENCE", "JSON", " ", "{}", " ", "FENCE", " ">> }

(* the answer that consists of the same JSON object alone *)
Unfenced(raw) == [raw EXCEPT !.text = <<"{}">>]

(* C29: an answer that is a JSON object inside a code fence gives the     *)
(* result and the validity flag that the object alone gives for the same  *)
(* ticket, and that result is not null.                                   *)
C29_FenceIsTransparent ==
  \A j \in JobIds :
    LET o == jobs[j].out
        alone == triage(IntText(jobs[j].ticketId), Unfenced(o.raw))
    IN (Answered(j) /\ o.raw.text \in FencedTexts)
         => /\ o.result = alone.result
            /\ o.valid = alone.valid
            /\ o.result # NullResult

(* a fenced answer tagged JSON, padded with whitespace, was applied to   *)
(* the ticket and recorded with its fence                                *)
C29_Witness ==
  \E j \in JobIds :
    /\ jobs[j].state = "completed"
    /\ Len(log) = 1 /\ log[1].status = "INFO"
    /\ log[1].rawAiResponse.text =
         <<"\n", "FENCE", "JSON", " ", "{}", " ", "FENCE", " ">>
    /\ tickets[jobs[j].ticketId].category = "Feature Request"
    /\ tickets[jobs[j].ticketId].responseDraft = <<" ", "a", " ">>

(* C30: a call of addTriageTag that finds no row for its id ends with     *)
(* 'Ticket not found' and no ticket is written; a call that finds the row *)
(* goes on to one write, which sets the tag to the marker when the tag    *)
(* was null or empty and else to the old tag, a comma and the marker, so  *)
(* that the old tag is a prefix of the new one and the markers it held    *)
(* are all kept, in order; no other field of the ticket changes.          *)
C30_AddTriageTagAppends ==
  [][\A r \in Reqs :
       LET id == reqs[r].id
           m == reqs[r].text[1]
       IN /\ (reqs[r].pc = "tag_get" /\ Steps(r))
               => /\ tickets' = tickets
                  /\ IF Exists(id)
                       THEN reqs'[r].pc = "tag_update"
                       ELSE /\ reqs'[r].pc = "done"
                            /\ reqs'[r].result = "Ticket not found"
          /\ (reqs[r].pc = "tag_update" /\ Steps(r))
               => /\ Exists(id)
                  /\ reqs'[r].result = "success"
                  /\ tickets'[id].tag =
                       IF tickets[id].tag \in {NullText, << >>}
                         THEN <<m>>
                         ELSE tickets[id].tag \o <<",", m>>
                  /\ tickets[id].tag # NullText
                       => IsPrefix(tickets[id].tag, tickets'[id].tag)
                  /\ IsPrefix(Markers(tickets[id].tag),
                              Markers(tickets'[id].tag))
                  /\ tickets' = [tickets EXCEPT
                                   ![id].tag = tickets'[id].tag]]_vars

(* a tag set by hand has received two markers after it, and a call for   *)
(* an id without a row has failed with 'Ticket not found'                *)
C30_Witness ==
  /\ tickets[1].tag =
       <<"vip", ",", "AI_TRIAGE_NO_RESULT", ",", "AI_TRIAGE_DONE">>
  /\ \E r \in Reqs :
       /\ reqs[r].op = "addTriageTag" /\ reqs[r].pc = "done"
       /\ reqs[r].result = "Ticket not found"
  /\ \E r \in Reqs :
       /\ reqs[r].op = "addTriageTag" /\ reqs[r].pc = "done"
       /\ reqs[r].result = "success"

(* C31: every row carries its own id, and no step of a request or of the  *)
(* worker changes the id, title, content or owning user of a ticket that  *)
(* exists before and after the step.                                      *)
C31_IdentityFieldsKept ==
  /\ [](\A id \in DOMAIN tickets : tickets[id].id = id)
  /\ [][\A id \in DOMAIN tickets \cap DOMAIN tickets' :
          /\ tickets'[id].id = tickets[id].id
          /\ tickets'[id].title = tickets[id].title
          /\ tickets'[id].content = tickets[id].content
          /\ tickets'[id].userId = tickets[id].userId]_vars

(* a ticket of user 2 was triaged, resolved and closed and is still the  *)
(* ticket user 2 created                                                 *)
C31_Witness ==
  \E id \in DOMAIN tickets :
    /\ tickets[id].status = "CLOSED"
    /\ tickets[id].category # NULL
    /\ tickets[id].response # NullText
    /\ tickets[id].id = id /\ tickets[id].userId = 2
    /\ tickets[id].title = <<"t">> /\ tickets[id].content = <<"c">>

(* C32: a row leaves the tickets table only in the deleting step of a     *)
(* delete request for that ticket made by the user who created it; a      *)
(* delete request that finds the ticket owned by another user or by       *)
(* nobody is answered forbidden and writes nothing; so no step of the     *)
(* worker and no step of an edit-draft, resolve or close request removes  *)
(* a row.                                                                 *)
C32_OnlyCreatorDeletes ==
  [][/\ \A id \in DOMAIN tickets \ DOMAIN tickets' :
          \E r \in Reqs :
            /\ reqs[r].op = "delete" /\ reqs[r].pc = "delete_delete"
            /\ Steps(r)
            /\ reqs[r].id = id
            /\ reqs[r].user # NoUser
            /\ tickets[id].userId = reqs[r].user
     /\ \A r \in Reqs :
          (reqs[r].pc = "delete_get" /\ Steps(r))
            => /\ tickets' = tickets
               /\ (Exists(reqs[r].id)
                     /\ tickets[reqs[r].id].userId # reqs[r].user)
                    => /\ reqs'[r].pc = "done"
                       /\ reqs'[r].result = "forbidden"]_vars

(* the creator's delete request succeeded and the ticket is gone, after  *)
(* the worker had recorded an attempt for it                             *)
C32_Witness ==
  \E r \in Reqs :
    /\ reqs[r].op = "delete" /\ reqs[r].pc = "done"
    /\ reqs[r].result = "success"
    /\ nextId = 2 /\ ~Exists(1)
    /\ \E j \in JobIds : jobs[j].ticketId = 1 /\ jobs[j].state = "completed"

(* C33: every write of responseDraft, by the updating step of an edit-    *)
(* draft request or by the worker's triage update, finds the ticket's     *)
(* status OPEN or IN_PROGRESS at the moment of the write.                 *)
C33_DraftWrittenOnlyWhileOpen ==
  [][/\ \A r \in Reqs :
          (reqs[r].pc = "draft_update" /\ Steps(r) /\ Exists(reqs[r].id))
            => Row(reqs[r].id).status \in {"OPEN", "IN_PROGRESS"}
     /\ \A j \in JobIds :
          (At(j, "update") /\ JobSteps(j) /\ Exists(jobs[j].ticketId))
            => Row(jobs[j].ticketId).status \in {"OPEN", "IN_PROGRESS"}
    ]_vars

(* C34: the write of a resolve request that succeeds stores as response   *)
(* the responseDraft the ticket holds at the moment of the write, and the *)
(* status it overwrites is OPEN or IN_PROGRESS.                           *)
C34_ResolveWritesCurrentDraft ==
  [][\A r \in Reqs :
       LET id == reqs[r].id
       IN (reqs[r].pc = "resolve_update" /\ Steps(r) /\ Exists(id))
            => /\ tickets'[id].response = Row(id).responseDraft
               /\ Row(id).status \in {"OPEN", "IN_PROGRESS"}]_vars

(* C35: replyMadeBy names the last writer of responseDraft: a new ticket  *)
(* has neither; the write of an edit-draft request stores its text with   *)
(* HUMAN_AI, the worker's triage update stores its draft with AI, and no  *)
(* other step changes either field.                                       *)
C35_ReplyMadeByLastWriter ==
  [][\A id \in DOMAIN tickets' :
       IF id \notin DOMAIN tickets
         THEN /\ tickets'[id].replyMadeBy = NULL
              /\ tickets'[id].responseDraft = NullText
       ELSE IF \E r \in Reqs : /\ reqs[r].pc = "draft_update" /\ Steps(r)
                               /\ reqs[r].id = id
         THEN /\ tickets'[id].replyMadeBy = "HUMAN_AI"
              /\ \E r \in Reqs : /\ reqs[r].pc = "draft_update" /\ Steps(r)
                                 /\ tickets'[id].responseDraft = reqs[r].text
       ELSE IF \E j \in JobIds : /\ At(j, "update") /\ JobSteps(j)
                                 /\ jobs[j].ticketId = id
         THEN /\ tickets'[id].replyMadeBy = "AI"
              /\ \E j \in JobIds :
                   /\ At(j, "update") /\ JobSteps(j)
                   /\ tickets'[id].responseDraft =
                        jobs[j].out.result.response_draft
       ELSE /\ tickets'[id].replyMadeBy = Row(id).replyMadeBy
            /\ tickets'[id].responseDraft = Row(id).responseDraft]_vars

(* a human edit has overwritten the draft of a triaged ticket *)
C35_Witness ==
  \E id \in DOMAIN tickets :
    /\ Row(id).category # NULL
    /\ Row(id).replyMadeBy = "HUMAN_AI"
    /\ Row(id).responseDraft = <<" ", "c">>

(* C36: a handler that is in the classifier call eventually leaves it,    *)
(* with a result or with an error handled as a classifier failure: no     *)
(* handler stays suspended in the call forever.                           *)
C36_ClassifierCallEnds ==
  \A j \in 1..MaxTickets :
    (j \in JobIds /\ At(j, "triage")) ~> (j \in JobIds /\ ~At(j, "triage"))

(* C37: in every reachable state each ticket's category, sentiment and    *)
(* urgency are all null, or category is Billing, Technical or Feature     *)
(* Request, sentiment an integer in 1..10 and urgency High, Medium or     *)
(* Low; and a ticket whose replyMadeBy is AI has a responseDraft that is  *)
(* not null and not blank.                                                *)
C37_ClassificationAllOrNothing ==
  \A id \in DOMAIN tickets :
    /\ \/ /\ Row(id).category = NULL
          /\ Row(id).sentiment = NullInt
          /\ Row(id).urgency = NULL
       \/ /\ Row(id).category \in TRIAGE_CATEGORIES
          /\ Row(id).sentiment \in 1..10
          /\ Row(id).urgency \in TRIAGE_URGENCIES
    /\ Row(id).replyMadeBy = "AI"
         => /\ Row(id).responseDraft # NullText
            /\ ~IsBlank(Row(id).responseDraft)

(* a ticket triaged from an answer whose category, sentiment and urgency *)
(* were defaulted                                                        *)
C37_Witness ==
  \E id \in DOMAIN tickets :
    /\ Row(id).replyMadeBy = "AI"
    /\ Row(id).category = "Technical"
    /\ Row(id).sentiment = 5
    /\ Row(id).urgency = "Medium"
    /\ ~IsBlank(Row(id).responseDraft)

(* C38: in every reachable state, with the awaits of concurrent edit-     *)
(* draft, resolve and close requests interleaved, a ticket whose status   *)
(* is RESOLVED has a response that is not null and not blank.             *)
C38_ResolvedHasResponse ==
  \A id \in DOMAIN tickets :
    Row(id).status = "RESOLVED"
      => /\ Row(id).response # NullText
         /\ ~IsBlank(Row(id).response)

(* a RESOLVED ticket whose draft was blanked by an edit that had passed  *)
(* its status check before the resolve wrote                             *)
C38_Witness ==
  \E id \in DOMAIN tickets :
    /\ Row(id).status = "RESOLVED"
    /\ Row(id).response = <<" ", "c">>
    /\ Row(id).responseDraft # NullText
    /\ IsBlank(Row(id).responseDraft)

(* C39: when two calls of addTriageTag on the same ticket have both      *)
(* returned, the tag ends with the two markers they appended, in either  *)
(* order, and no write of a call removes a marker the tag held before it. *)
C39_BothMarkersKept ==
  /\ [](\A r, q \in Reqs :
          (/\ r < q
           /\ reqs[r].op = "addTriageTag" /\ reqs[q].op = "addTriageTag"
           /\ reqs[r].pc = "done" /\ reqs[q].pc = "done"
           /\ reqs[r].result = "success" /\ reqs[q].result = "success"
           /\ reqs[r].id = reqs[q].id /\ Exists(reqs[r].id))
          => LET mk == Markers(tickets[reqs[r].id].tag)
                 n == Len(mk)
             IN /\ n >= 2
                /\ <<mk[n - 1], mk[n]>> \in
                     { <<reqs[r].text[1], reqs[q].text[1]>>,
                       <<reqs[q].text[1], reqs[r].text[1]>> })
  /\ [][\A id \in DOMAIN tickets \cap DOMAIN tickets' :
          IsPrefix(Markers(tickets[id].tag), Markers(tickets'[id].tag))]_vars

====
